---- MODULE Spec2Model ----
(***************************************************************************)
(* HydraESP AI Edition: the shared sensor record, its mutex, the AI state  *)
(* queue and the four FreeRTOS tasks (AI, UI, scan, system) that use them. *)
(*                                                                         *)
(* Each task is a small program counter machine; one action is one         *)
(* scheduling step of one task.  A blocking call with a timeout            *)
(* (xSemaphoreTake, xQueueSend) is a pair of actions: the call succeeds    *)
(* when the resource is available, and times out when it is not.           *)
(* Time is not measured: every specification but SpecClock holds the clock *)
(* millis still, and the test millis() % 10000 == 0 of analyze_behavior is *)
(* an input of the cycle.  previous_state of ai_task.cpp is written and never *)
(* read, and is left out.                                                  *)
(***************************************************************************)
EXTENDS Integers, Sequences, FiniteSets, TLC

VARIABLES
    global_sensor_data,   \* main.cpp: the shared sensor_data_t record
    sensor_data_mutex,    \* "free" or the task that holds the mutex
    ai_state_queue,       \* the FreeRTOS queue, oldest first
    current_ai_state,     \* main.cpp: global, read by AI and UI tasks
    state_duration,       \* ai_task.cpp statics
    excitement_level,
    learning_progress,
    local_sensor_data,    \* ai_task's copy of the record
    new_state,            \* ai_task's local: the state analyze_behavior chose
    last_selected,        \* the state chosen by the last completed AI cycle
    ui_new_state,         \* ui_task's local: the state it received last
    status_text,          \* update_status_bar's static: <<glyph, label>>
    setup,                \* main.cpp setup(): where it is and the two handles
    current_metrics,      \* system_task.cpp static
    scan_local,           \* the scan function's locals: <<count, total_rssi>>
    millis,               \* the clock millis(), in milliseconds
    cycles_left,          \* loop iterations each task may still start (-1: no limit)
    pc                    \* where each task is

vars == <<global_sensor_data, sensor_data_mutex, ai_state_queue, current_ai_state,
          state_duration, excitement_level, learning_progress, local_sensor_data,
          new_state, last_selected, ui_new_state, status_text, setup, current_metrics,
          scan_local, millis, cycles_left, pc>>

\* the variables by owner, for the frame conditions
EngineVars == <<state_duration, excitement_level, learning_progress,
                local_sensor_data, new_state, last_selected>>
ProducerVars == <<current_metrics, scan_local>>
EnvVars == <<millis, cycles_left>>

(***************************************************************************)
(* Program constants (config.h, main.cpp).                                 *)
(***************************************************************************)
AI_UPDATE_INTERVAL == 200
HIGH_WIFI_ACTIVITY_THRESHOLD == 10
STRONG_BLE_SIGNAL_THRESHOLD == -50
LOW_MEMORY_THRESHOLD == 10240
MAX_WIFI_NETWORKS == 50
QUEUE_LENGTH == 10

(***************************************************************************)
(* Bounds of the model.                                                    *)
(***************************************************************************)
\* SpecQueue: state_duration is followed for this many cycles in one state
MaxDwellCycles == 2
\* loop iterations followed of the AI, scan and system tasks under Spec
MaxAiCycles == 3
MaxScanCycles == 1
MaxSystemCycles == 1
\* loop iterations followed of the UI task under SpecQueue
MaxUiCycles == 2
\* SpecCycle: the longest dwell, in cycles, an AI cycle starts from
MaxCycleDwell == 301

\* SpecStale: state_duration is followed for this many cycles in one state
MaxStaleDwell == 27

\* SpecSustained: state_duration is followed for this many cycles in one state
MaxSustainedDwell == 16

\* SpecFair: loop iterations followed of the AI task and of the scan task
MaxFairCycles == 1

\* SpecQuiet: AI cycles without a state change that are followed; the sleep
\* rule needs state_duration > 60000, which is 301 of them
MaxQuietDwell == 303

\* SpecLookup: the raw values of an ai_state_t object run over
\* -MaxRawState..MaxRawState
MaxRawState == 64

AiStates == {"Idle", "Sniffing", "Tracking", "Learning", "Excited", "Sleeping",
             "Error", "Updating"}
Tasks == {"ai", "ui", "scan", "system"}

\* setup() has returned: both handles are valid and the four tasks exist
SetupDone == [pc |-> "done", sensor_data_mutex |-> "valid", ai_state_queue |-> "valid"]

\* What the radios and the heap can report: <<number found, RSSI of each>> of a
\* scan, <<free heap, sd card mounted>> of a system sample.
WifiResults == {<<0, 0>>, <<60, -45>>}
BleResults == {<<0, 0>>, <<7, -40>>}
HeapSamples == {<<5000, FALSE>>, <<20000, TRUE>>}

min(a, b) == IF a < b THEN a ELSE b
max(a, b) == IF a > b THEN a ELSE b

\* C integer division truncates toward zero
CDiv(a, b) == IF a >= 0 THEN a \div b ELSE -((-a) \div b)

ZeroSensorData ==
    [wifi_networks_count |-> 0, wifi_signal_strength |-> 0,
     ble_devices_count |-> 0, ble_signal_strength |-> 0,
     free_memory |-> 0, uptime_seconds |-> 0,
     sd_card_present |-> FALSE, user_interaction |-> FALSE]

ZeroMetrics == [free_heap_size |-> 0, uptime_ms |-> 0, sd_card_mounted |-> FALSE]

\* analyze_behavior with the WiFi rule as README.md words it: more than 10
analyze_behavior_wifi_above(data, cur, dur, exc, lrn, decay) ==
    IF data.free_memory < LOW_MEMORY_THRESHOLD
    THEN [state |-> "Error", excitement_level |-> exc, learning_progress |-> lrn]
    ELSE IF data.wifi_networks_count > HIGH_WIFI_ACTIVITY_THRESHOLD
    THEN LET e == min(exc + 5, 100)
         IN  [state |-> IF e > 80 THEN "Excited" ELSE "Sniffing",
              excitement_level |-> e, learning_progress |-> lrn]
    ELSE [state |-> "Idle", excitement_level |-> exc, learning_progress |-> lrn]

\* analyze_behavior with the BLE rule accepting a signal at the threshold
analyze_behavior_ble_at_threshold(data, cur, dur, exc, lrn, decay) ==
    IF data.free_memory < LOW_MEMORY_THRESHOLD
    THEN [state |-> "Error", excitement_level |-> exc, learning_progress |-> lrn]
    ELSE IF data.wifi_networks_count >= HIGH_WIFI_ACTIVITY_THRESHOLD
    THEN LET e == min(exc + 5, 100)
         IN  [state |-> IF e > 80 THEN "Excited" ELSE "Sniffing",
              excitement_level |-> e, learning_progress |-> lrn]
    ELSE IF data.ble_devices_count > 5
            /\ data.ble_signal_strength >= STRONG_BLE_SIGNAL_THRESHOLD
    THEN [state |-> "Tracking", excitement_level |-> exc, learning_progress |-> lrn]
    ELSE [state |-> "Idle", excitement_level |-> exc, learning_progress |-> lrn]

\* analyze_behavior with the WiFi rule tested before the memory rule
analyze_behavior_wifi_first(data, cur, dur, exc, lrn, decay) ==
    IF data.wifi_networks_count >= HIGH_WIFI_ACTIVITY_THRESHOLD
    THEN LET e == min(exc + 5, 100)
         IN  [state |-> IF e > 80 THEN "Excited" ELSE "Sniffing",
              excitement_level |-> e, learning_progress |-> lrn]
    ELSE IF data.free_memory < LOW_MEMORY_THRESHOLD
    THEN [state |-> "Error", excitement_level |-> exc, learning_progress |-> lrn]
    ELSE [state |-> "Idle", excitement_level |-> exc, learning_progress |-> lrn]

\* analyze_behavior with state_duration >= 5000 in line 112
analyze_behavior_learning_at_threshold(data, cur, dur, exc, lrn, decay) ==
    IF data.free_memory < LOW_MEMORY_THRESHOLD
    THEN [state |-> "Error", excitement_level |-> exc, learning_progress |-> lrn]
    ELSE IF data.wifi_networks_count >= HIGH_WIFI_ACTIVITY_THRESHOLD
    THEN LET e == min(exc + 5, 100)
         IN  [state |-> IF e > 80 THEN "Excited" ELSE "Sniffing",
              excitement_level |-> e, learning_progress |-> lrn]
    ELSE IF data.ble_devices_count > 5
            /\ data.ble_signal_strength > STRONG_BLE_SIGNAL_THRESHOLD
    THEN [state |-> "Tracking", excitement_level |-> exc, learning_progress |-> lrn]
    ELSE IF cur = "Sniffing" /\ dur >= 5000
    THEN [state |-> "Learning", excitement_level |-> exc,
          learning_progress |-> min(lrn + 10, 100)]
    ELSE IF data.wifi_networks_count = 0 /\ data.ble_devices_count = 0
            /\ ~data.user_interaction /\ dur > 60000
    THEN [state |-> "Sleeping", excitement_level |-> max(exc - 2, 0),
          learning_progress |-> lrn]
    ELSE [state |-> "Idle",
          excitement_level |-> IF decay THEN max(exc - 1, 0) ELSE exc,
          learning_progress |-> lrn]

\* analyze_behavior without the increment of line 97
analyze_behavior_wifi_no_excitement(data, cur, dur, exc, lrn, decay) ==
    IF data.free_memory < LOW_MEMORY_THRESHOLD
    THEN [state |-> "Error", excitement_level |-> exc, learning_progress |-> lrn]
    ELSE IF data.wifi_networks_count >= HIGH_WIFI_ACTIVITY_THRESHOLD
    THEN LET e == exc
         IN  [state |-> IF e > 80 THEN "Excited" ELSE "Sniffing",
              excitement_level |-> e, learning_progress |-> lrn]
    ELSE IF data.ble_devices_count > 5
            /\ data.ble_signal_strength > STRONG_BLE_SIGNAL_THRESHOLD
    THEN [state |-> "Tracking", excitement_level |-> exc, learning_progress |-> lrn]
    ELSE IF cur = "Sniffing" /\ dur > 5000
    THEN [state |-> "Learning", excitement_level |-> exc,
          learning_progress |-> min(lrn + 10, 100)]
    ELSE IF data.wifi_networks_count = 0 /\ data.ble_devices_count = 0
            /\ ~data.user_interaction /\ dur > 60000
    THEN [state |-> "Sleeping", excitement_level |-> max(exc - 2, 0),
          learning_progress |-> lrn]
    ELSE [state |-> "Idle",
          excitement_level |-> IF decay THEN max(exc - 1, 0) ELSE exc,
          learning_progress |-> lrn]

\* analyze_behavior with the update rule of infer_ai_state before its default
analyze_behavior_updating_default(data, cur, dur, exc, lrn, decay) ==
    IF data.free_memory < LOW_MEMORY_THRESHOLD
    THEN [state |-> "Error", excitement_level |-> exc, learning_progress |-> lrn]
    ELSE IF data.wifi_networks_count >= HIGH_WIFI_ACTIVITY_THRESHOLD
    THEN LET e == min(exc + 5, 100)
         IN  [state |-> IF e > 80 THEN "Excited" ELSE "Sniffing",
              excitement_level |-> e, learning_progress |-> lrn]
    ELSE IF data.ble_devices_count > 5
            /\ data.ble_signal_strength > STRONG_BLE_SIGNAL_THRESHOLD
    THEN [state |-> "Tracking", excitement_level |-> exc, learning_progress |-> lrn]
    ELSE IF cur = "Sniffing" /\ dur > 5000
    THEN [state |-> "Learning", excitement_level |-> exc,
          learning_progress |-> min(lrn + 10, 100)]
    ELSE IF data.wifi_networks_count = 0 /\ data.ble_devices_count = 0
            /\ ~data.user_interaction /\ dur > 60000
    THEN [state |-> "Sleeping", excitement_level |-> max(exc - 2, 0),
          learning_progress |-> lrn]
    ELSE [state |-> IF data.uptime_seconds < 60 THEN "Updating" ELSE "Idle",
          excitement_level |-> IF decay THEN max(exc - 1, 0) ELSE exc,
          learning_progress |-> lrn]

\* analyze_behavior with the decay of lines 123-126 moved before the BLE rule
analyze_behavior_decay_before_tracking(data, cur, dur, exc, lrn, decay) ==
    LET d == IF decay THEN max(exc - 1, 0) ELSE exc
    IN
    IF data.free_memory < LOW_MEMORY_THRESHOLD
    THEN [state |-> "Error", excitement_level |-> exc, learning_progress |-> lrn]
    ELSE IF data.wifi_networks_count >= HIGH_WIFI_ACTIVITY_THRESHOLD
    THEN LET e == min(exc + 5, 100)
         IN  [state |-> IF e > 80 THEN "Excited" ELSE "Sniffing",
              excitement_level |-> e, learning_progress |-> lrn]
    ELSE IF data.ble_devices_count > 5
            /\ data.ble_signal_strength > STRONG_BLE_SIGNAL_THRESHOLD
    THEN [state |-> "Tracking", excitement_level |-> d, learning_progress |-> lrn]
    ELSE IF cur = "Sniffing" /\ dur > 5000
    THEN [state |-> "Learning", excitement_level |-> exc,
          learning_progress |-> min(lrn + 10, 100)]
    ELSE IF data.wifi_networks_count = 0 /\ data.ble_devices_count = 0
            /\ ~data.user_interaction /\ dur > 60000
    THEN [state |-> "Sleeping", excitement_level |-> max(exc - 2, 0),
          learning_progress |-> lrn]
    ELSE [state |-> "Idle", excitement_level |-> d, learning_progress |-> lrn]

(***************************************************************************)
(* analyze_behavior: the state it returns and the counters it leaves.      *)
(* decay is the outcome of millis() % 10000 == 0.                          *)
(***************************************************************************)
analyze_behavior(data, cur, dur, exc, lrn, decay) ==
    IF data.free_memory < LOW_MEMORY_THRESHOLD
    THEN [state |-> "Error", excitement_level |-> exc, learning_progress |-> lrn]
    ELSE IF data.wifi_networks_count >= HIGH_WIFI_ACTIVITY_THRESHOLD
    THEN LET e == min(exc + 5, 100)
         IN  [state |-> IF e > 80 THEN "Excited" ELSE "Sniffing",
              excitement_level |-> e, learning_progress |-> lrn]
    ELSE IF data.ble_devices_count > 5
            /\ data.ble_signal_strength > STRONG_BLE_SIGNAL_THRESHOLD
    THEN [state |-> "Tracking", excitement_level |-> exc, learning_progress |-> lrn]
    ELSE IF cur = "Sniffing" /\ dur > 5000
    THEN [state |-> "Learning", excitement_level |-> exc,
          learning_progress |-> min(lrn + 10, 100)]
    ELSE IF data.wifi_networks_count = 0 /\ data.ble_devices_count = 0
            /\ ~data.user_interaction /\ dur > 60000
    THEN [state |-> "Sleeping", excitement_level |-> max(exc - 2, 0),
          learning_progress |-> lrn]
    ELSE [state |-> "Idle",
          excitement_level |-> IF decay THEN max(exc - 1, 0) ELSE exc,
          learning_progress |-> lrn]

\* update_learning_metrics without the two caps of lines 158-159
update_learning_metrics_uncapped(s, exc, lrn) ==
    [excitement_level |-> IF s = "Excited" THEN exc + 10 ELSE exc,
     learning_progress |-> IF s = "Learning" THEN lrn + 5
                           ELSE IF s = "Sleeping" /\ lrn > 20 THEN lrn - 2
                           ELSE lrn]

\* update_learning_metrics without the test of line 150
update_learning_metrics_sleep_always(s, exc, lrn) ==
    LET l1 == IF s = "Learning" THEN lrn + 5
              ELSE IF s = "Sleeping" THEN max(lrn - 2, 0)
              ELSE lrn
        e1 == IF s = "Excited" THEN min(exc + 10, 100) ELSE exc
    IN  [excitement_level |-> min(e1, 100), learning_progress |-> min(l1, 100)]

(***************************************************************************)
(* update_learning_metrics: the counters after entering state s.           *)
(***************************************************************************)
update_learning_metrics(s, exc, lrn) ==
    LET l1 == IF s = "Learning" THEN lrn + 5
              ELSE IF s = "Sleeping" /\ lrn > 20 THEN lrn - 2
              ELSE lrn
        e1 == IF s = "Excited" THEN min(exc + 10, 100) ELSE exc
    IN  [excitement_level |-> min(e1, 100), learning_progress |-> min(l1, 100)]

(***************************************************************************)
(* ai_states.h: the enumerators of ai_state_t, and the display lookups of  *)
(* main.cpp.  A glyph is the sequence of its code points.                  *)
(***************************************************************************)
AI_STATE_IDLE == 0
AI_STATE_SNIFFING == 1
AI_STATE_TRACKING == 2
AI_STATE_LEARNING == 3
AI_STATE_EXCITED == 4
AI_STATE_SLEEPING == 5
AI_STATE_ERROR == 6
AI_STATE_UPDATING == 7

\* the enumerators, in the order of their values
AiStateNames ==
    <<"Idle", "Sniffing", "Tracking", "Learning", "Excited", "Sleeping", "Error",
      "Updating">>
AiStateValues == AI_STATE_IDLE..AI_STATE_UPDATING

\* a switch whose last case label was written as the default
ai_state_to_string_no_default(state) ==
    CASE state = AI_STATE_IDLE -> "Idle"
      [] state = AI_STATE_SNIFFING -> "Sniffing"
      [] state = AI_STATE_TRACKING -> "Tracking"
      [] state = AI_STATE_LEARNING -> "Learning"
      [] state = AI_STATE_EXCITED -> "Excited"
      [] state = AI_STATE_SLEEPING -> "Sleeping"
      [] state = AI_STATE_ERROR -> "Error"
      [] OTHER -> "Updating"

\* main.cpp lines 325-337
ai_state_to_string(state) ==
    CASE state = AI_STATE_IDLE -> "Idle"
      [] state = AI_STATE_SNIFFING -> "Sniffing"
      [] state = AI_STATE_TRACKING -> "Tracking"
      [] state = AI_STATE_LEARNING -> "Learning"
      [] state = AI_STATE_EXCITED -> "Excited"
      [] state = AI_STATE_SLEEPING -> "Sleeping"
      [] state = AI_STATE_ERROR -> "Error"
      [] state = AI_STATE_UPDATING -> "Updating"
      [] OTHER -> "Unknown"

\* main.cpp lines 342-354
ai_state_to_emoji(state) ==
    CASE state = AI_STATE_IDLE -> <<128522>>
      [] state = AI_STATE_SNIFFING -> <<128067>>
      [] state = AI_STATE_TRACKING -> <<128065, 65039>>
      [] state = AI_STATE_LEARNING -> <<129504>>
      [] state = AI_STATE_EXCITED -> <<129321>>
      [] state = AI_STATE_SLEEPING -> <<128564>>
      [] state = AI_STATE_ERROR -> <<128128>>
      [] state = AI_STATE_UPDATING -> <<128260>>
      [] OTHER -> <<129300>>

(***************************************************************************)
(* The mutex and the queue.                                                *)
(***************************************************************************)
\* xSemaphoreTake that succeeds whoever holds the mutex
CanTake_unguarded(t) == TRUE

\* xSemaphoreTake succeeds for task t
CanTake(t) == sensor_data_mutex = "free"
\* xSemaphoreTake with portMAX_DELAY: no timeout ends the wait
TakeTimesOut_never(t) == FALSE

\* xSemaphoreTake of task t runs into its timeout
TakeTimesOut(t) == sensor_data_mutex # "free"
QueueFull == Len(ai_state_queue) >= QUEUE_LENGTH

Goto(t, l) == pc' = [pc EXCEPT ![t] = l]

\* task t starts an iteration of its loop
CanStart(t) == cycles_left[t] # 0
Start(t) ==
    cycles_left' = IF cycles_left[t] > 0
                   THEN [cycles_left EXCEPT ![t] = cycles_left[t] - 1]
                   ELSE cycles_left

\* A setup() that fills in free_memory before the tasks start
InitDevice_heap_known(budget) ==
    /\ global_sensor_data \in
          {[ZeroSensorData EXCEPT !.sd_card_present = b, !.free_memory = 20000] :
              b \in BOOLEAN}
    /\ sensor_data_mutex = "free"
    /\ ai_state_queue = <<>>
    /\ current_ai_state = "Idle"
    /\ state_duration = 0
    /\ excitement_level = 0
    /\ learning_progress = 0
    /\ local_sensor_data = ZeroSensorData
    /\ new_state = "None"
    /\ last_selected = "None"
    /\ ui_new_state = "None"
    /\ status_text = <<>>
    /\ setup = SetupDone
    /\ current_metrics = ZeroMetrics
    /\ scan_local = <<0, 0>>
    /\ millis = 0
    /\ cycles_left = budget
    /\ pc = [t \in Tasks |->
               CASE t = "ai" -> "take"
                 [] t = "ui" -> "receive"
                 [] t = "scan" -> "wifi_scan"
                 [] t = "system" -> "collect"]

\* The device after setup(): the record is zero except for sd_card_present, which
\* initialize_storage has set; budget gives each task's loop iterations.
InitDevice(budget) ==
    /\ global_sensor_data \in
          {[ZeroSensorData EXCEPT !.sd_card_present = b] : b \in BOOLEAN}
    /\ sensor_data_mutex = "free"
    /\ ai_state_queue = <<>>
    /\ current_ai_state = "Idle"
    /\ state_duration = 0
    /\ excitement_level = 0
    /\ learning_progress = 0
    /\ local_sensor_data = ZeroSensorData
    /\ new_state = "None"
    /\ last_selected = "None"
    /\ ui_new_state = "None"
    /\ status_text = <<>>
    /\ setup = SetupDone
    /\ current_metrics = ZeroMetrics
    /\ scan_local = <<0, 0>>
    /\ millis = 0
    /\ cycles_left = budget
    /\ pc = [t \in Tasks |->
               CASE t = "ai" -> "take"
                 [] t = "ui" -> "receive"
                 [] t = "scan" -> "wifi_scan"
                 [] t = "system" -> "collect"]

(***************************************************************************)
(* ai_task.  local_sensor_data and new_state are read only between the     *)
(* copy and the end of the cycle; the end of the cycle clears them.        *)
(***************************************************************************)
\* line 41: the take succeeds
AiTake ==
    /\ pc["ai"] = "take"
    /\ CanStart("ai")
    /\ CanTake("ai")
    /\ Start("ai")
    /\ sensor_data_mutex' = "ai"
    /\ Goto("ai", "copy")
    /\ UNCHANGED <<global_sensor_data, ai_state_queue, current_ai_state, ui_new_state, status_text, setup,
                   EngineVars, ProducerVars, millis>>

\* the else branch of lines 44-47 without its continue: the cycle goes on
AiTakeTimeout_no_continue ==
    /\ pc["ai"] = "take"
    /\ CanStart("ai")
    /\ TakeTimesOut("ai")
    /\ Start("ai")
    /\ Goto("ai", "analyze")
    /\ UNCHANGED <<global_sensor_data, sensor_data_mutex, ai_state_queue,
                   current_ai_state, ui_new_state, status_text, setup, EngineVars, ProducerVars, millis>>

\* lines 44-47: the take times out, the cycle is skipped
AiTakeTimeout ==
    /\ pc["ai"] = "take"
    /\ CanStart("ai")
    /\ TakeTimesOut("ai")
    /\ Start("ai")
    /\ Goto("ai", "take")
    /\ UNCHANGED <<global_sensor_data, sensor_data_mutex, ai_state_queue,
                   current_ai_state, ui_new_state, status_text, setup, EngineVars, ProducerVars, millis>>

\* a copy of the record that leaves out the xSemaphoreGive of line 43
AiCopy_keeps_mutex ==
    /\ pc["ai"] = "copy"
    /\ local_sensor_data' = global_sensor_data
    /\ Goto("ai", "analyze")
    /\ UNCHANGED <<global_sensor_data, sensor_data_mutex, ai_state_queue,
                   current_ai_state, ui_new_state, status_text, setup, new_state,
                   state_duration, excitement_level, learning_progress,
                   last_selected, ProducerVars, EnvVars>>

\* lines 42-43: memcpy and give
AiCopy ==
    /\ pc["ai"] = "copy"
    /\ local_sensor_data' = global_sensor_data
    /\ sensor_data_mutex' = "free"
    /\ Goto("ai", "analyze")
    /\ UNCHANGED <<global_sensor_data, ai_state_queue, current_ai_state, ui_new_state, status_text, setup,
                   state_duration, excitement_level, learning_progress, new_state,
                   last_selected, ProducerVars, EnvVars>>

\* line 51
AiAnalyze ==
    /\ pc["ai"] = "analyze"
    /\ \E decay \in BOOLEAN :
          LET r == analyze_behavior(local_sensor_data, current_ai_state, state_duration,
                                    excitement_level, learning_progress, decay)
          IN  /\ new_state' = r.state
              /\ excitement_level' = r.excitement_level
              /\ learning_progress' = r.learning_progress
    /\ Goto("ai", "compare")
    /\ UNCHANGED <<global_sensor_data, sensor_data_mutex, ai_state_queue,
                   current_ai_state, ui_new_state, status_text, setup, state_duration, local_sensor_data,
                   last_selected, ProducerVars, EnvVars>>

\* a cycle that sends whether or not the state changed
AiCompare_always_sends(maxDwell) ==
    /\ pc["ai"] = "compare"
    /\ Goto("ai", "send")
    /\ UNCHANGED <<state_duration, last_selected, local_sensor_data, new_state>>
    /\ UNCHANGED <<global_sensor_data, sensor_data_mutex, ai_state_queue,
                   current_ai_state, ui_new_state, status_text, setup, excitement_level,
                   learning_progress, ProducerVars, EnvVars>>

\* line 54, and lines 68-70 and 82 when the state did not change
AiCompare(maxDwell) ==
    /\ pc["ai"] = "compare"
    /\ IF new_state # current_ai_state
       THEN /\ Goto("ai", "send")
            /\ UNCHANGED <<state_duration, last_selected, local_sensor_data, new_state>>
       ELSE /\ state_duration + AI_UPDATE_INTERVAL <= maxDwell * AI_UPDATE_INTERVAL
            /\ state_duration' = state_duration + AI_UPDATE_INTERVAL
            /\ last_selected' = new_state
            /\ local_sensor_data' = ZeroSensorData
            /\ new_state' = "None"
            /\ Goto("ai", "take")
    /\ UNCHANGED <<global_sensor_data, sensor_data_mutex, ai_state_queue,
                   current_ai_state, ui_new_state, status_text, setup, excitement_level, learning_progress,
                   ProducerVars, EnvVars>>

\* an xQueueSend that stores the event although the queue is full
AiSend_overfills ==
    /\ pc["ai"] = "send"
    /\ ai_state_queue' = Append(ai_state_queue, new_state)
    /\ Goto("ai", "update")
    /\ UNCHANGED <<global_sensor_data, sensor_data_mutex, current_ai_state,
                   ui_new_state, status_text, setup, EngineVars, ProducerVars, EnvVars>>

\* line 58: xQueueSend with a 10 ms timeout; there is room, or the task blocks
AiSend ==
    /\ pc["ai"] = "send"
    /\ IF QueueFull
       THEN /\ Goto("ai", "send_blocked")
            /\ UNCHANGED ai_state_queue
       ELSE /\ ai_state_queue' = Append(ai_state_queue, new_state)
            /\ Goto("ai", "update")
    /\ UNCHANGED <<global_sensor_data, sensor_data_mutex, current_ai_state,
                   ui_new_state, status_text, setup, EngineVars, ProducerVars, EnvVars>>

\* a blocked xQueueSend that gives up although room has appeared
AiSendWake_drops ==
    /\ pc["ai"] = "send_blocked"
    /\ ~QueueFull
    /\ Goto("ai", "update")
    /\ UNCHANGED <<global_sensor_data, sensor_data_mutex, ai_state_queue,
                   current_ai_state, ui_new_state, status_text, setup, EngineVars, ProducerVars, EnvVars>>

\* line 58: room appeared while the task was blocked in xQueueSend
AiSendWake ==
    /\ pc["ai"] = "send_blocked"
    /\ ~QueueFull
    /\ ai_state_queue' = Append(ai_state_queue, new_state)
    /\ Goto("ai", "update")
    /\ UNCHANGED <<global_sensor_data, sensor_data_mutex, current_ai_state,
                   ui_new_state, status_text, setup, EngineVars, ProducerVars, EnvVars>>

\* xQueueSend with portMAX_DELAY: no timeout ends the wait on a full queue
AiSendTimeout_waits_forever ==
    /\ pc["ai"] = "send_blocked"
    /\ QueueFull
    /\ FALSE
    /\ UNCHANGED vars

\* lines 58-60: the send times out with the queue still full
AiSendTimeout ==
    /\ pc["ai"] = "send_blocked"
    /\ QueueFull
    /\ Goto("ai", "update")
    /\ UNCHANGED <<global_sensor_data, sensor_data_mutex, ai_state_queue,
                   current_ai_state, ui_new_state, status_text, setup, EngineVars, ProducerVars, EnvVars>>

\* lines 63-67 without the reset of state_duration
AiUpdate_keeps_duration ==
    /\ pc["ai"] = "update"
    /\ LET m == update_learning_metrics(new_state, excitement_level, learning_progress)
       IN  /\ excitement_level' = m.excitement_level
           /\ learning_progress' = m.learning_progress
    /\ current_ai_state' = new_state
    /\ state_duration' = state_duration
    /\ last_selected' = new_state
    /\ local_sensor_data' = ZeroSensorData
    /\ new_state' = "None"
    /\ Goto("ai", "take")
    /\ UNCHANGED <<global_sensor_data, sensor_data_mutex, ai_state_queue, ui_new_state, status_text, setup,
                   ProducerVars, EnvVars>>

\* lines 63-67 and 82
AiUpdate ==
    /\ pc["ai"] = "update"
    /\ LET m == update_learning_metrics(new_state, excitement_level, learning_progress)
       IN  /\ excitement_level' = m.excitement_level
           /\ learning_progress' = m.learning_progress
    /\ current_ai_state' = new_state
    /\ state_duration' = 0
    /\ last_selected' = new_state
    /\ local_sensor_data' = ZeroSensorData
    /\ new_state' = "None"
    /\ Goto("ai", "take")
    /\ UNCHANGED <<global_sensor_data, sensor_data_mutex, ai_state_queue, ui_new_state, status_text, setup,
                   ProducerVars, EnvVars>>

AiNext(maxDwell) ==
    \/ AiTake \/ AiTakeTimeout \/ AiCopy \/ AiAnalyze \/ AiCompare(maxDwell)
    \/ AiSend \/ AiUpdate

\* the steps of an AI task that is blocked in xQueueSend
AiBlockedNext == AiSendWake \/ AiSendTimeout

(***************************************************************************)
(* ui_task                                                                 *)
(***************************************************************************)
\* an xQueuePeek in place of xQueueReceive: the event stays in the queue
UiReceive_peeks ==
    /\ pc["ui"] = "receive"
    /\ CanStart("ui")
    /\ Start("ui")
    /\ IF ai_state_queue # <<>>
       THEN /\ ui_new_state' = Head(ai_state_queue)
            /\ current_ai_state' = Head(ai_state_queue)
            /\ UNCHANGED ai_state_queue
       ELSE UNCHANGED <<ui_new_state, ai_state_queue, current_ai_state>>
    /\ Goto("ui", "status")
    /\ UNCHANGED <<global_sensor_data, sensor_data_mutex, status_text, setup, EngineVars,
                   ProducerVars, millis>>

\* a consumer that falls back on the engine's state when the queue is empty
UiReceive_latest ==
    /\ pc["ui"] = "receive"
    /\ CanStart("ui")
    /\ Start("ui")
    /\ IF ai_state_queue # <<>>
       THEN /\ ui_new_state' = Head(ai_state_queue)
            /\ ai_state_queue' = Tail(ai_state_queue)
            /\ current_ai_state' = Head(ai_state_queue)
       ELSE /\ ui_new_state' = current_ai_state
            /\ UNCHANGED <<ai_state_queue, current_ai_state>>
    /\ Goto("ui", "status")
    /\ UNCHANGED <<global_sensor_data, sensor_data_mutex, status_text, setup, EngineVars,
                   ProducerVars, millis>>

\* an xQueueReceive that removes the event without handing it to the consumer
UiReceive_discards ==
    /\ pc["ui"] = "receive"
    /\ CanStart("ui")
    /\ Start("ui")
    /\ IF ai_state_queue # <<>>
       THEN /\ ai_state_queue' = Tail(ai_state_queue)
            /\ UNCHANGED <<ui_new_state, current_ai_state>>
       ELSE UNCHANGED <<ui_new_state, ai_state_queue, current_ai_state>>
    /\ Goto("ui", "status")
    /\ UNCHANGED <<global_sensor_data, sensor_data_mutex, status_text, setup, EngineVars,
                   ProducerVars, millis>>

\* a receive that takes the newest event in place of the oldest
UiReceive_newest ==
    /\ pc["ui"] = "receive"
    /\ CanStart("ui")
    /\ Start("ui")
    /\ IF ai_state_queue # <<>>
       THEN /\ ui_new_state' = ai_state_queue[Len(ai_state_queue)]
            /\ ai_state_queue' = SubSeq(ai_state_queue, 1, Len(ai_state_queue) - 1)
            /\ current_ai_state' = ai_state_queue[Len(ai_state_queue)]
       ELSE UNCHANGED <<ui_new_state, ai_state_queue, current_ai_state>>
    /\ Goto("ui", "status")
    /\ UNCHANGED <<global_sensor_data, sensor_data_mutex, status_text, setup, EngineVars,
                   ProducerVars, millis>>

\* lines 64-71: xQueueReceive with no wait
UiReceive ==
    /\ pc["ui"] = "receive"
    /\ CanStart("ui")
    /\ Start("ui")
    /\ IF ai_state_queue # <<>>
       THEN /\ ui_new_state' = Head(ai_state_queue)
            /\ ai_state_queue' = Tail(ai_state_queue)
            /\ current_ai_state' = Head(ai_state_queue)
       ELSE UNCHANGED <<ui_new_state, ai_state_queue, current_ai_state>>
    /\ Goto("ui", "status")
    /\ UNCHANGED <<global_sensor_data, sensor_data_mutex, status_text, setup, EngineVars,
                   ProducerVars, millis>>

\* update_status_bar, line 227: the take succeeds
UiTake ==
    /\ pc["ui"] = "status"
    /\ CanTake("ui")
    /\ sensor_data_mutex' = "ui"
    /\ Goto("ui", "read")
    /\ UNCHANGED <<global_sensor_data, ai_state_queue, current_ai_state, ui_new_state, status_text, setup,
                   EngineVars, ProducerVars, EnvVars>>

\* update_status_bar, line 227: the take times out
UiTakeTimeout ==
    /\ pc["ui"] = "status"
    /\ TakeTimesOut("ui")
    /\ Goto("ui", "receive")
    /\ UNCHANGED <<global_sensor_data, sensor_data_mutex, ai_state_queue,
                   current_ai_state, ui_new_state, status_text, setup, EngineVars, ProducerVars, EnvVars>>

\* update_status_bar, lines 228-243: read the record for the labels, give
UiRead ==
    /\ pc["ui"] = "read"
    /\ sensor_data_mutex' = "free"
    /\ Goto("ui", "receive")
    /\ UNCHANGED <<global_sensor_data, ai_state_queue, current_ai_state, ui_new_state, status_text, setup,
                   EngineVars, ProducerVars, EnvVars>>

\* update_status_bar, lines 219-224: the status text from current_ai_state
UiStatusText ==
    /\ pc["ui"] = "status_text"
    /\ status_text' = <<ai_state_to_emoji(current_ai_state),
                        ai_state_to_string(current_ai_state)>>
    /\ Goto("ui", "status")
    /\ UNCHANGED <<global_sensor_data, sensor_data_mutex, ai_state_queue,
                   current_ai_state, ui_new_state, setup, EngineVars, ProducerVars,
                   EnvVars>>

UiNext == UiReceive \/ UiTake \/ UiTakeTimeout \/ UiRead

(***************************************************************************)
(* scan_task.  scan_local holds stored_count/device_count and total_rssi   *)
(* of the scan function that is running; they go out of scope on return.   *)
(***************************************************************************)
ScanFrame == UNCHANGED <<ai_state_queue, current_ai_state, ui_new_state, status_text, setup, EngineVars,
                         current_metrics, millis>>

\* scan_wifi_networks, lines 93-98: WiFi.scanNetworks fails
ScanWifiFailed ==
    /\ pc["scan"] = "wifi_scan"
    /\ CanStart("scan")
    /\ Start("scan")
    /\ Goto("scan", "ble_scan")
    /\ ScanFrame
    /\ UNCHANGED <<global_sensor_data, sensor_data_mutex, scan_local>>

\* scan_wifi_networks, lines 93-120: the scan finds res[1] networks, the take succeeds
ScanWifiTake(results) ==
    /\ pc["scan"] = "wifi_scan"
    /\ CanStart("scan")
    /\ CanTake("scan")
    /\ Start("scan")
    /\ \E res \in results :
          LET stored_count == min(res[1], MAX_WIFI_NETWORKS)
          IN  scan_local' = <<stored_count, stored_count * res[2]>>
    /\ sensor_data_mutex' = "scan"
    /\ Goto("scan", "wifi_count")
    /\ ScanFrame
    /\ UNCHANGED global_sensor_data

\* scan_wifi_networks, line 120: the take times out, nothing is written
ScanWifiTimeout ==
    /\ pc["scan"] = "wifi_scan"
    /\ CanStart("scan")
    /\ TakeTimesOut("scan")
    /\ Start("scan")
    /\ Goto("scan", "ble_scan")
    /\ ScanFrame
    /\ UNCHANGED <<global_sensor_data, sensor_data_mutex, scan_local>>

\* line 121
ScanWifiCount ==
    /\ pc["scan"] = "wifi_count"
    /\ global_sensor_data' =
          [global_sensor_data EXCEPT !.wifi_networks_count = scan_local[1]]
    /\ Goto("scan", "wifi_rssi")
    /\ ScanFrame
    /\ UNCHANGED <<sensor_data_mutex, scan_local, cycles_left>>

\* lines 122-123
ScanWifiRssi ==
    /\ pc["scan"] = "wifi_rssi"
    /\ global_sensor_data' =
          [global_sensor_data EXCEPT !.wifi_signal_strength =
              IF scan_local[1] > 0 THEN CDiv(scan_local[2], scan_local[1]) ELSE -100]
    /\ sensor_data_mutex' = "free"
    /\ scan_local' = <<0, 0>>
    /\ Goto("scan", "ble_scan")
    /\ ScanFrame
    /\ UNCHANGED cycles_left

\* scan_ble_devices, lines 142-167: the scan finds res[1] devices, the take succeeds
ScanBleTake(results) ==
    /\ pc["scan"] = "ble_scan"
    /\ CanTake("scan")
    /\ \E res \in results : scan_local' = <<res[1], res[1] * res[2]>>
    /\ sensor_data_mutex' = "scan"
    /\ Goto("scan", "ble_count")
    /\ ScanFrame
    /\ UNCHANGED <<global_sensor_data, cycles_left>>

\* scan_ble_devices, line 167: the take times out, nothing is written
ScanBleTimeout ==
    /\ pc["scan"] = "ble_scan"
    /\ TakeTimesOut("scan")
    /\ Goto("scan", "process")
    /\ ScanFrame
    /\ UNCHANGED <<global_sensor_data, sensor_data_mutex, scan_local, cycles_left>>

\* line 168
ScanBleCount ==
    /\ pc["scan"] = "ble_count"
    /\ global_sensor_data' =
          [global_sensor_data EXCEPT !.ble_devices_count = scan_local[1]]
    /\ Goto("scan", "ble_rssi")
    /\ ScanFrame
    /\ UNCHANGED <<sensor_data_mutex, scan_local, cycles_left>>

\* lines 169-170
ScanBleRssi ==
    /\ pc["scan"] = "ble_rssi"
    /\ global_sensor_data' =
          [global_sensor_data EXCEPT !.ble_signal_strength =
              IF scan_local[1] > 0 THEN CDiv(scan_local[2], scan_local[1]) ELSE -100]
    /\ sensor_data_mutex' = "free"
    /\ scan_local' = <<0, 0>>
    /\ Goto("scan", "process")
    /\ ScanFrame
    /\ UNCHANGED cycles_left

\* process_scan_results, line 184: the take succeeds
ProcessTake ==
    /\ pc["scan"] = "process"
    /\ CanTake("scan")
    /\ sensor_data_mutex' = "scan"
    /\ Goto("scan", "process_write")
    /\ ScanFrame
    /\ UNCHANGED <<global_sensor_data, scan_local, cycles_left>>

\* process_scan_results, line 184: the take times out
ProcessTimeout ==
    /\ pc["scan"] = "process"
    /\ TakeTimesOut("scan")
    /\ Goto("scan", "log")
    /\ ScanFrame
    /\ UNCHANGED <<global_sensor_data, sensor_data_mutex, scan_local, cycles_left>>

\* process_scan_results with >= in place of > in the test of lines 188-189
ProcessWrite_at_threshold ==
    /\ pc["scan"] = "process_write"
    /\ global_sensor_data' =
          [global_sensor_data EXCEPT
              !.uptime_seconds = millis \div 1000,
              !.user_interaction =
                  (global_sensor_data.wifi_networks_count >= HIGH_WIFI_ACTIVITY_THRESHOLD
                   \/ global_sensor_data.ble_devices_count >= 10)]
    /\ sensor_data_mutex' = "free"
    /\ Goto("scan", "log")
    /\ ScanFrame
    /\ UNCHANGED <<scan_local, cycles_left>>

\* process_scan_results, lines 185-195
ProcessWrite ==
    /\ pc["scan"] = "process_write"
    /\ global_sensor_data' =
          [global_sensor_data EXCEPT
              !.uptime_seconds = millis \div 1000,
              !.user_interaction =
                  (global_sensor_data.wifi_networks_count > HIGH_WIFI_ACTIVITY_THRESHOLD
                   \/ global_sensor_data.ble_devices_count > 10)]
    /\ sensor_data_mutex' = "free"
    /\ Goto("scan", "log")
    /\ ScanFrame
    /\ UNCHANGED <<scan_local, cycles_left>>

\* log_interesting_networks (lines 209-214) and scan_task lines 77-79: the record
\* is read for the log without taking the mutex; then the period delay
ScanLog ==
    /\ pc["scan"] = "log"
    /\ Goto("scan", "wifi_scan")
    /\ ScanFrame
    /\ UNCHANGED <<global_sensor_data, sensor_data_mutex, scan_local, cycles_left>>

ScanNext(wifi, ble) ==
    \/ ScanWifiFailed \/ ScanWifiTake(wifi) \/ ScanWifiTimeout
    \/ ScanWifiCount \/ ScanWifiRssi
    \/ ScanBleTake(ble) \/ ScanBleTimeout \/ ScanBleCount \/ ScanBleRssi
    \/ ProcessTake \/ ProcessTimeout \/ ProcessWrite \/ ScanLog

(***************************************************************************)
(* system_task.  current_metrics is written by collect_system_metrics      *)
(* before every use; the end of the update clears it.                      *)
(***************************************************************************)
SystemFrame == UNCHANGED <<ai_state_queue, current_ai_state, ui_new_state, status_text, setup, EngineVars,
                           scan_local, millis>>

\* collect_system_metrics, lines 64-87
SystemCollect(samples) ==
    /\ pc["system"] = "collect"
    /\ CanStart("system")
    /\ Start("system")
    /\ \E s \in samples :
          current_metrics' = [free_heap_size |-> s[1], uptime_ms |-> millis,
                              sd_card_mounted |-> s[2]]
    /\ Goto("system", "update")
    /\ SystemFrame
    /\ UNCHANGED <<global_sensor_data, sensor_data_mutex>>

\* update_global_sensor_data, line 93: the take succeeds
SystemTake ==
    /\ pc["system"] = "update"
    /\ CanTake("system")
    /\ sensor_data_mutex' = "system"
    /\ Goto("system", "write_memory")
    /\ SystemFrame
    /\ UNCHANGED <<global_sensor_data, current_metrics, cycles_left>>

\* update_global_sensor_data writing free_memory although the take timed out
SystemTimeout_writes ==
    /\ pc["system"] = "update"
    /\ TakeTimesOut("system")
    /\ global_sensor_data' =
          [global_sensor_data EXCEPT !.free_memory = current_metrics.free_heap_size]
    /\ current_metrics' = ZeroMetrics
    /\ Goto("system", "collect")
    /\ SystemFrame
    /\ UNCHANGED <<sensor_data_mutex, cycles_left>>

\* update_global_sensor_data, line 93: the take times out
SystemTimeout ==
    /\ pc["system"] = "update"
    /\ TakeTimesOut("system")
    /\ current_metrics' = ZeroMetrics
    /\ Goto("system", "collect")
    /\ SystemFrame
    /\ UNCHANGED <<global_sensor_data, sensor_data_mutex, cycles_left>>

\* line 94
SystemWriteMemory ==
    /\ pc["system"] = "write_memory"
    /\ global_sensor_data' =
          [global_sensor_data EXCEPT !.free_memory = current_metrics.free_heap_size]
    /\ Goto("system", "write_rest")
    /\ SystemFrame
    /\ UNCHANGED <<sensor_data_mutex, current_metrics, cycles_left>>

\* lines 95-98
SystemWriteRest ==
    /\ pc["system"] = "write_rest"
    /\ global_sensor_data' =
          [global_sensor_data EXCEPT
              !.uptime_seconds = current_metrics.uptime_ms \div 1000,
              !.sd_card_present = current_metrics.sd_card_mounted]
    /\ sensor_data_mutex' = "free"
    /\ current_metrics' = ZeroMetrics
    /\ Goto("system", "collect")
    /\ SystemFrame
    /\ UNCHANGED cycles_left

SystemNext(samples) ==
    \/ SystemCollect(samples) \/ SystemTake \/ SystemTimeout
    \/ SystemWriteMemory \/ SystemWriteRest

(***************************************************************************)
(* Spec: the four tasks over every scan result and heap sample, the AI     *)
(* task and each producer followed for a bounded number of iterations.     *)
(***************************************************************************)
Init ==
    InitDevice([ai |-> MaxAiCycles, ui |-> -1, scan |-> MaxScanCycles,
                system |-> MaxSystemCycles])

Next ==
    \/ AiNext(MaxAiCycles)
    \/ UiNext
    \/ ScanNext(WifiResults, BleResults)
    \/ SystemNext(HeapSamples)

Spec == Init /\ [][Next]_vars

(***************************************************************************)
(* SpecQueue: the AI, UI and system tasks with no limit on iterations and  *)
(* the scan task not running (it spends its period inside the radio        *)
(* scans), so that the heap samples alone drive the state changes and the  *)
(* queue fills; the UI task is followed for MaxUiCycles iterations and     *)
(* then receives no more.  The AI task has the highest priority and every  *)
(* call it blocks in has a timeout, so its steps are fair; the UI task's   *)
(* are not assumed to be.                                                  *)
(***************************************************************************)
InitQueue == InitDevice([ai |-> -1, ui |-> MaxUiCycles, scan |-> 0, system |-> -1])

AiNextQueue == AiNext(MaxDwellCycles) \/ AiBlockedNext

NextQueue ==
    \/ AiNextQueue
    \/ UiNext
    \/ SystemNext(HeapSamples)

SpecQueue == InitQueue /\ [][NextQueue]_vars /\ WF_vars(AiNextQueue)

(***************************************************************************)
(* SpecCycle: one AI cycle from the point where the snapshot has been      *)
(* copied, for every snapshot, current state, dwell and pair of counters   *)
(* drawn from the sets below.  No other task runs.                         *)
(***************************************************************************)
SnapshotInputs ==
    {[wifi_networks_count |-> w, wifi_signal_strength |-> -60,
      ble_devices_count |-> b[1], ble_signal_strength |-> b[2],
      free_memory |-> m, uptime_seconds |-> 0,
      sd_card_present |-> TRUE, user_interaction |-> u] :
        w \in {0, 5, 10, 50},
        b \in {<<0, -100>>, <<5, -40>>, <<7, -40>>, <<7, -50>>},
        m \in {5000, 10240},
        u \in BOOLEAN}
EngineStates == AiStates \ {"Updating"}
DwellInputs == {0, 5000, 5200, 60000, MaxCycleDwell * AI_UPDATE_INTERVAL}
ExcitementInputs == {0, 1, 2, 3, 50, 75, 76, 80, 81, 90, 91, 95, 96, 99, 100}
LearningInputs == {0, 20, 21, 22, 50, 90, 91, 95, 96, 100}

InitCycle ==
    /\ local_sensor_data \in SnapshotInputs
    /\ global_sensor_data = local_sensor_data
    /\ sensor_data_mutex = "free"
    /\ ai_state_queue = <<>>
    /\ current_ai_state \in EngineStates
    /\ state_duration \in DwellInputs
    /\ excitement_level \in ExcitementInputs
    /\ learning_progress \in LearningInputs
    /\ new_state = "None"
    /\ last_selected = "None"
    /\ ui_new_state = "None"
    /\ status_text = <<>>
    /\ setup = SetupDone
    /\ current_metrics = ZeroMetrics
    /\ scan_local = <<0, 0>>
    /\ millis = 0
    /\ cycles_left = [ai |-> 0, ui |-> 0, scan |-> 0, system |-> 0]
    /\ pc = [t \in Tasks |->
               CASE t = "ai" -> "analyze"
                 [] t = "ui" -> "receive"
                 [] t = "scan" -> "wifi_scan"
                 [] t = "system" -> "collect"]

NextCycle == AiAnalyze \/ AiCompare(MaxCycleDwell + 1) \/ AiSend \/ AiUpdate

SpecCycle == InitCycle /\ [][NextCycle]_vars

(***************************************************************************)
(* SpecStale: the device after the system task's first update, with a      *)
(* healthy heap that stays so (the system task writes the same values      *)
(* again and is left out), no BLE device, two WiFi scans and a UI task     *)
(* that receives once, late.  The AI task is followed until it has stayed  *)
(* in one state for longer than the 5000 ms of the Learning rule.          *)
(***************************************************************************)
QuietBle == {<<0, 0>>}

\* The record after the system task's first update found a healthy heap and
\* a mounted card, before any scan has written.
HealthyRecord == [ZeroSensorData EXCEPT !.free_memory = 20000, !.sd_card_present = TRUE]

\* A running device between cycles: every task at the start of its loop, the
\* locals of the last iteration gone, the AI task in state cur since its last
\* cycle, which selected it.
InitRunning(rec, cur, exc, queue, budget) ==
    /\ global_sensor_data = rec
    /\ sensor_data_mutex = "free"
    /\ ai_state_queue = queue
    /\ current_ai_state = cur
    /\ state_duration = 0
    /\ excitement_level = exc
    /\ learning_progress = 0
    /\ local_sensor_data = ZeroSensorData
    /\ new_state = "None"
    /\ last_selected = cur
    /\ ui_new_state = "None"
    /\ status_text = <<>>
    /\ setup = SetupDone
    /\ current_metrics = ZeroMetrics
    /\ scan_local = <<0, 0>>
    /\ millis = 0
    /\ cycles_left = budget
    /\ pc = [t \in Tasks |->
               CASE t = "ai" -> "take"
                 [] t = "ui" -> "receive"
                 [] t = "scan" -> "wifi_scan"
                 [] t = "system" -> "collect"]

InitStale ==
    InitRunning(HealthyRecord, "Idle", 0, <<>>,
                [ai |-> -1, ui |-> 1, scan |-> 2, system |-> 0])

NextStale ==
    \/ AiNext(MaxStaleDwell)
    \/ UiNext
    \/ ScanNext(WifiResults, QuietBle)

SpecStale == InitStale /\ [][NextStale]_vars

(***************************************************************************)
(* SpecSustained: a running device whose every WiFi scan finds 60 networks *)
(* and whose heap stays healthy, so that every snapshot has                *)
(* wifi_networks_count >= 10 and free_memory >= 10240, from excitement 0.  *)
(***************************************************************************)
BusyWifi == {<<60, -45>>}
HealthyHeap == {<<20000, TRUE>>}

\* The record after a scan that found 60 networks and no BLE device
BusyRecord ==
    [HealthyRecord EXCEPT !.wifi_networks_count = MAX_WIFI_NETWORKS,
                          !.wifi_signal_strength = -45,
                          !.ble_signal_strength = -100,
                          !.user_interaction = TRUE]

InitSustained ==
    InitRunning(BusyRecord, "Idle", 0, <<>>,
                [ai |-> -1, ui |-> -1, scan |-> 1, system |-> 1])

NextSustained ==
    \/ AiNext(MaxSustainedDwell)
    \/ UiNext
    \/ ScanNext(BusyWifi, BleResults)
    \/ SystemNext(HealthyHeap)

SpecSustained == InitSustained /\ [][NextSustained]_vars

(***************************************************************************)
(* SpecFair: the four tasks under fair scheduling.  Every task sleeps for  *)
(* the rest of its period in each iteration and blocks only in calls with  *)
(* a timeout, so the preemptive scheduler runs each of them again and      *)
(* again: each task's steps are weakly fair.  The system and UI tasks are  *)
(* followed without limit, the AI and scan tasks for a bounded number of   *)
(* iterations.                                                             *)
(***************************************************************************)
InitFair ==
    InitDevice([ai |-> MaxFairCycles, ui |-> -1, scan |-> MaxFairCycles, system |-> -1])

AiNextFair == AiNext(MaxFairCycles)
ScanNextFair == ScanNext(WifiResults, BleResults)
SystemNextFair == SystemNext(HeapSamples)

NextFair == AiNextFair \/ UiNext \/ ScanNextFair \/ SystemNextFair

SpecFair ==
    /\ InitFair
    /\ [][NextFair]_vars
    /\ WF_vars(AiNextFair)
    /\ WF_vars(UiNext)
    /\ WF_vars(ScanNextFair)
    /\ WF_vars(SystemNextFair)

(***************************************************************************)
(* SpecLowMemory: a running device with a healthy record whose free heap   *)
(* is below LOW_MEMORY_THRESHOLD from now on: every sample the system task *)
(* collects is low, while the scan task reports whatever it finds.  The    *)
(* scheduling is fair as in SpecFair.                                      *)
(***************************************************************************)
LowHeap == {<<5000, FALSE>>}

InitLowMemory ==
    InitRunning(HealthyRecord, "Idle", 0, <<>>,
                [ai |-> MaxAiCycles, ui |-> MaxUiCycles, scan |-> MaxScanCycles,
                 system |-> MaxSystemCycles])

AiNextLowMemory == AiNext(MaxDwellCycles)
ScanNextLowMemory == ScanNext(WifiResults, BleResults)
SystemNextLowMemory == SystemNext(LowHeap)

NextLowMemory == AiNextLowMemory \/ UiNext \/ ScanNextLowMemory \/ SystemNextLowMemory

SpecLowMemory ==
    /\ InitLowMemory
    /\ [][NextLowMemory]_vars
    /\ WF_vars(AiNextLowMemory)
    /\ WF_vars(UiNext)
    /\ WF_vars(ScanNextLowMemory)
    /\ WF_vars(SystemNextLowMemory)

(***************************************************************************)
(* SpecBacklog: a running device whose UI task has fallen behind.  Ten     *)
(* scans that found 60 networks and none in turn have taken the AI task    *)
(* between Sniffing and Idle, the ten events fill the queue, and the       *)
(* system task has just written a low heap sample.  From here the scan     *)
(* task is left out (it spends its period inside the radio scans), the     *)
(* heap recovers (the system task's further samples are healthy), and the  *)
(* AI and UI tasks run without limit.  The scheduling is fair: the UI task *)
(* polls the queue in every iteration of its loop from now on.             *)
(***************************************************************************)
\* The record after a WiFi scan that found no network and a system update
\* that found a low heap and no card
LowRecord ==
    [HealthyRecord EXCEPT !.wifi_signal_strength = -100,
                          !.free_memory = 5000,
                          !.sd_card_present = FALSE]

\* Ten events, Sniffing and Idle in turn, Idle last
StaleEvents == [i \in 1..QUEUE_LENGTH |-> IF i % 2 = 1 THEN "Sniffing" ELSE "Idle"]

InitBacklog ==
    InitRunning(LowRecord, "Idle", 24, StaleEvents,
                [ai |-> -1, ui |-> -1, scan |-> 0, system |-> MaxSystemCycles])

SystemNextBacklog == SystemNext(HealthyHeap)

NextBacklog == AiNextQueue \/ UiNext \/ SystemNextBacklog

SpecBacklog ==
    /\ InitBacklog
    /\ [][NextBacklog]_vars
    /\ WF_vars(AiNextQueue)
    /\ WF_vars(UiNext)
    /\ WF_vars(SystemNextBacklog)

(***************************************************************************)
(* SpecDrain: the backlog of SpecBacklog in the runs where no send is      *)
(* dropped: a send that finds the queue full waits until the UI task has   *)
(* made room (the 10 ms of line 58 do not run out).  The AI task's take of *)
(* the mutex is strongly fair: ai_task waits up to 50 ms in xSemaphoreTake *)
(* (line 41) and the other tasks hold the mutex only for a few             *)
(* assignments, so a mutex that is given again and again is obtained by    *)
(* the waiting AI task; it is not skipped cycle after cycle for ever.      *)
(***************************************************************************)
AiNextDrain == AiNext(MaxDwellCycles) \/ AiSendWake

NextDrain == AiNextDrain \/ UiNext \/ SystemNextBacklog

SpecDrain ==
    /\ InitBacklog
    /\ [][NextDrain]_vars
    /\ WF_vars(AiNextDrain)
    /\ SF_vars(AiTake)
    /\ WF_vars(UiNext)
    /\ WF_vars(SystemNextBacklog)

(***************************************************************************)
(* SpecLookup: update_status_bar builds the status text from an ai_state_t *)
(* object of any raw value.  The other specifications name the eight       *)
(* states by their enumerators and leave the label texts out; here         *)
(* current_ai_state holds the object's value, inside the enumeration or    *)
(* not, and only the UI task's lookup step runs.                           *)
(***************************************************************************)
LookupInputs == (-MaxRawState)..MaxRawState

InitLookup ==
    /\ current_ai_state \in LookupInputs
    /\ global_sensor_data = ZeroSensorData
    /\ sensor_data_mutex = "free"
    /\ ai_state_queue = <<>>
    /\ state_duration = 0
    /\ excitement_level = 0
    /\ learning_progress = 0
    /\ local_sensor_data = ZeroSensorData
    /\ new_state = "None"
    /\ last_selected = "None"
    /\ ui_new_state = "None"
    /\ status_text = <<>>
    /\ setup = SetupDone
    /\ current_metrics = ZeroMetrics
    /\ scan_local = <<0, 0>>
    /\ millis = 0
    /\ cycles_left = [ai |-> 0, ui |-> 0, scan |-> 0, system |-> 0]
    /\ pc = [t \in Tasks |->
               CASE t = "ai" -> "take"
                 [] t = "ui" -> "status_text"
                 [] t = "scan" -> "wifi_scan"
                 [] t = "system" -> "collect"]

NextLookup == UiStatusText

SpecLookup == InitLookup /\ [][NextLookup]_vars

(***************************************************************************)
(* SpecEngine: the running device of SpecStale with the UI task not        *)
(* running, so that the AI task is the only writer of current_ai_state.    *)
(* Two scans report whatever they find, WiFi and BLE; the heap stays       *)
(* healthy.  The AI task is followed until it has stayed in one state for  *)
(* longer than the 5000 ms of the Learning rule.                           *)
(***************************************************************************)
InitEngine ==
    InitRunning(HealthyRecord, "Idle", 0, <<>>,
                [ai |-> -1, ui |-> 0, scan |-> 2, system |-> 0])

NextEngine ==
    \/ AiNext(MaxStaleDwell)
    \/ ScanNext(WifiResults, BleResults)

SpecEngine == InitEngine /\ [][NextEngine]_vars

(***************************************************************************)
(* SpecQuiet: a running device in a quiet place: no network, no BLE        *)
(* device, no interaction, a healthy heap.  The scan and system tasks      *)
(* would write the same values again and are left out.  The AI task runs   *)
(* without limit, and the UI task polls the queue once, at any time.       *)
(***************************************************************************)
InitQuiet ==
    InitRunning(HealthyRecord, "Idle", 0, <<>>,
                [ai |-> -1, ui |-> 1, scan |-> 0, system |-> 0])

NextQuiet == AiNext(MaxQuietDwell) \/ UiNext

SpecQuiet == InitQuiet /\ [][NextQuiet]_vars

(***************************************************************************)
(* The claims.                                                             *)
(***************************************************************************)
\* the AI task has chosen new_state from local_sensor_data in this cycle
Selected == new_state # "None"

\* C1: in every AI cycle whose snapshot has free_memory below
\* LOW_MEMORY_THRESHOLD the state analyze_behavior selects is Error, whatever
\* the wireless fields, user_interaction, the current state, the dwell and the
\* two counters are.
C1_LowMemorySelectsError ==
    (Selected /\ local_sensor_data.free_memory < LOW_MEMORY_THRESHOLD)
        => new_state = "Error"

\* C1 witness: a snapshot with 5000 bytes free and 50 networks selected Error
C1_Witness ==
    /\ pc["ai"] = "compare"
    /\ local_sensor_data.free_memory = 5000
    /\ local_sensor_data.wifi_networks_count = 50
    /\ new_state = "Error"

\* C2: excitement_level and learning_progress stay within [0,100] through the
\* steps of an AI cycle, from every pair of values in that range.
C2_CountersInRange ==
    /\ excitement_level \in 0..100
    /\ learning_progress \in 0..100

\* C2 witness: a cycle that entered Learning has ended with learning_progress
\* at its cap
C2_Witness ==
    /\ pc["ai"] = "take"
    /\ current_ai_state = "Learning"
    /\ state_duration = 0
    /\ learning_progress = 100

\* C3: an AI cycle whose take of sensor_data_mutex times out is skipped:
\* current_ai_state, state_duration, excitement_level, learning_progress and
\* the queue are as before the cycle, and the task is back at the start of its
\* loop for the next cycle.
C3_TimeoutSkipsCycle ==
    [][(/\ pc["ai"] = "take"
        /\ sensor_data_mutex # "free"
        /\ cycles_left'["ai"] # cycles_left["ai"])
          => (/\ UNCHANGED <<current_ai_state, state_duration, excitement_level,
                             learning_progress, ai_state_queue>>
              /\ pc'["ai"] = "take")]_vars

\* C3 witness: the AI task has started one cycle, completed none, and is back
\* at the take while another task holds the mutex
C3_Witness ==
    /\ pc["ai"] = "take"
    /\ cycles_left["ai"] = MaxAiCycles - 1
    /\ last_selected = "None"
    /\ sensor_data_mutex # "free"

\* what scan_wifi_networks / scan_ble_devices write for a scan result
WrittenPair(res, cap) ==
    LET n == min(res[1], cap)
    IN  <<n, IF n > 0 THEN CDiv(n * res[2], n) ELSE -100>>

\* C4: in every record the AI task has copied, the two WiFi fields come from
\* one WiFi update (or are both still zero), the two BLE fields from one BLE
\* update, and free_memory and sd_card_present from one system update (or
\* from setup), under every interleaving of the four tasks.
C4_SnapshotPairsConsistent ==
    /\ <<local_sensor_data.wifi_networks_count, local_sensor_data.wifi_signal_strength>>
          \in {<<0, 0>>} \cup {WrittenPair(r, MAX_WIFI_NETWORKS) : r \in WifiResults}
    /\ <<local_sensor_data.ble_devices_count, local_sensor_data.ble_signal_strength>>
          \in {<<0, 0>>} \cup {WrittenPair(r, r[1]) : r \in BleResults}
    /\ <<local_sensor_data.free_memory, local_sensor_data.sd_card_present>>
          \in {<<0, FALSE>>, <<0, TRUE>>} \cup HeapSamples

\* C4 witness: a copy taken after a WiFi update and a system update, holding
\* both fields of each
C4_Witness ==
    /\ pc["ai"] = "analyze"
    /\ local_sensor_data.wifi_networks_count = MAX_WIFI_NETWORKS
    /\ local_sensor_data.wifi_signal_strength = -45
    /\ local_sensor_data.free_memory = 20000
    /\ local_sensor_data.sd_card_present

\* where a producer goes when its take at the given place times out
AfterTimeout ==
    [wifi_scan |-> "ble_scan", ble_scan |-> "process", process |-> "log",
     update |-> "collect"]

\* C5: when a producer's take of sensor_data_mutex times out (scan task at
\* its three updates, system task at its one), global_sensor_data and the
\* mutex are left as they were and the producer goes on with its cycle.
C5_ProducerTimeoutKeepsRecord ==
    [][\A t \in {"scan", "system"} :
          (/\ pc[t] \in DOMAIN AfterTimeout
           /\ sensor_data_mutex # "free"
           /\ pc'[t] # pc[t])
             => (/\ global_sensor_data' = global_sensor_data
                 /\ sensor_data_mutex' = sensor_data_mutex
                 /\ pc'[t] = AfterTimeout[pc[t]])]_vars

\* C5 witness: the system task has collected a sample, written nothing and
\* is at the start of its next cycle
C5_Witness ==
    /\ pc["system"] = "collect"
    /\ cycles_left["system"] = MaxSystemCycles - 1
    /\ global_sensor_data.free_memory = 0

\* the places where a task reads or writes a field of global_sensor_data
AccessPlaces ==
    {"copy", "read", "wifi_count", "wifi_rssi", "ble_count", "ble_rssi",
     "process_write", "write_memory", "write_rest", "log"}

\* C6: every read and every write of global_sensor_data by a task is made
\* while that task holds sensor_data_mutex.
C6_AccessHoldsMutex ==
    [][\A t \in Tasks :
          (pc[t] \in AccessPlaces /\ pc'[t] # pc[t]) => sensor_data_mutex = t]_vars

\* C7: current_ai_state changes only in the AI task's step that ends a cycle
\* with a state change; no step of another task changes it.
C7_OnlyAiTaskWritesState ==
    [][current_ai_state' # current_ai_state
          => (pc["ai"] = "update" /\ pc'["ai"] = "take")]_vars

C9_FullQueueCycleEnds ==
    /\ (pc["ai"] = "send_blocked")
          ~> (/\ pc["ai"] = "take"
              /\ state_duration = 0
              /\ current_ai_state = last_selected)
    /\ [][(pc["ai"] = "send_blocked" /\ QueueFull /\ pc'["ai"] # "send_blocked")
             => ai_state_queue' = ai_state_queue]_vars

\* C9 witness: a cycle has ended with the queue full and the state it entered
\* not in the queue's last place
C9_Witness ==
    /\ pc["ai"] = "take"
    /\ QueueFull
    /\ state_duration = 0
    /\ current_ai_state = last_selected
    /\ ai_state_queue[QUEUE_LENGTH] # last_selected

\* C10: after its first completed cycle the AI task goes to the send
\* exactly in the cycles whose selected state differs from the state selected
\* by the previous completed cycle.
C10_SendIffSelectionChanged ==
    [][(pc["ai"] = "compare" /\ pc'["ai"] # "compare" /\ last_selected # "None")
          => ((pc'["ai"] = "send") <=> (new_state # last_selected))]_vars

C13_TrackingExactlyOnStrongBle ==
    Selected =>
        (new_state = "Tracking" <=>
            (/\ local_sensor_data.free_memory >= LOW_MEMORY_THRESHOLD
             /\ local_sensor_data.wifi_networks_count < HIGH_WIFI_ACTIVITY_THRESHOLD
             /\ local_sensor_data.ble_devices_count > 5
             /\ local_sensor_data.ble_signal_strength > STRONG_BLE_SIGNAL_THRESHOLD))

\* C13 witness: 7 devices at -40 dBm and no network select Tracking
C13_Witness ==
    /\ pc["ai"] = "compare"
    /\ local_sensor_data.ble_devices_count = 7
    /\ local_sensor_data.ble_signal_strength = -40
    /\ local_sensor_data.wifi_networks_count = 0
    /\ new_state = "Tracking"

\* C14: an analyze_behavior call with free_memory >= LOW_MEMORY_THRESHOLD, no
\* network, no device, no interaction and state_duration > 60000 selects
\* Sleeping and lowers excitement_level by 2, not below 0.
C14_QuietLongDwellSleeps ==
    [][(/\ pc["ai"] = "analyze"
        /\ pc'["ai"] = "compare"
        /\ local_sensor_data.free_memory >= LOW_MEMORY_THRESHOLD
        /\ local_sensor_data.wifi_networks_count = 0
        /\ local_sensor_data.ble_devices_count = 0
        /\ ~local_sensor_data.user_interaction
        /\ state_duration > 60000)
          => (/\ new_state' = "Sleeping"
              /\ excitement_level' = max(excitement_level - 2, 0))]_vars

\* C15: an analyze_behavior call with free_memory >= LOW_MEMORY_THRESHOLD, no
\* network, no device and user_interaction set selects Idle, whatever the
\* dwell is.
C15_InteractionBlocksSleep ==
    [][(/\ pc["ai"] = "analyze"
        /\ pc'["ai"] = "compare"
        /\ local_sensor_data.free_memory >= LOW_MEMORY_THRESHOLD
        /\ local_sensor_data.wifi_networks_count = 0
        /\ local_sensor_data.ble_devices_count = 0
        /\ local_sensor_data.user_interaction)
          => new_state' = "Idle"]_vars

\* C12: with wifi_networks_count >= 10 and free_memory >= 10240 in every
\* snapshot, at the end of every completed cycle the AI task is in Sniffing
\* while excitement_level is at or below 80 and in Excited once it is above;
\* each cycle adds 5, so from 0 the 17th cycle passes 80, and from then on
\* the state is Excited.
C12_SustainedWifiExcites ==
    (pc["ai"] = "take" /\ last_selected # "Idle")
        => current_ai_state = IF excitement_level > 80 THEN "Excited" ELSE "Sniffing"

\* the place where each task's loop starts
LoopStart == [ai |-> "take", ui |-> "receive", scan |-> "wifi_scan", system |-> "collect"]

\* C16: under fair scheduling every iteration a task has started reaches the
\* start of the next one, and a task waiting to take the mutex at the start
\* of an iteration gets past the take, with the mutex or by its timeout.
C16_EveryIterationCompletes ==
    /\ \A t \in Tasks : (pc[t] # LoopStart[t]) ~> (pc[t] = LoopStart[t])
    /\ \A t \in {"ai", "scan"} :
          \A k \in 1..MaxFairCycles :
             (cycles_left[t] = k) ~> (cycles_left[t] = k - 1)

\* C16 witness: the AI task found the mutex held at every take, and both it
\* and the scan task have completed all their iterations
C16_Witness ==
    /\ pc["ai"] = "take"
    /\ cycles_left["ai"] = 0
    /\ last_selected = "None"
    /\ pc["scan"] = "wifi_scan"
    /\ cycles_left["scan"] = 0

\* C17: once the system task has written a free heap below
\* LOW_MEMORY_THRESHOLD into the record and the heap stays low, a
\* current_ai_state that has become Error remains Error
C17_ErrorPersistsWhileLow ==
    [][(/\ global_sensor_data.free_memory < LOW_MEMORY_THRESHOLD
        /\ current_ai_state = "Error")
         => current_ai_state' = "Error"]_vars

\* The AI task has just changed current_ai_state to Error (lines 63-67)
ChangedToError ==
    /\ pc["ai"] = "take"
    /\ last_selected = "Error"
    /\ state_duration = 0

\* C18 as stated: whenever the engine changes to Error, the consumer
\* eventually receives an event carrying Error
C18_ErrorAlwaysReceived == ChangedToError ~> (ui_new_state = "Error")

\* C18: an Error event that was enqueued is eventually received by the
\* consumer, wherever it stands in the queue
C18_QueuedErrorReceived ==
    (/\ \E i \in 1..Len(ai_state_queue) : ai_state_queue[i] = "Error"
     /\ ui_new_state # "Error")
        ~> (ui_new_state = "Error")

\* C18 witness: the consumer has just received an Error event that the AI
\* task had enqueued behind older events
C18_Witness ==
    /\ pc["ui"] = "status"
    /\ ui_new_state = "Error"
    /\ current_ai_state = "Error"

\* C19: no replay or coalescing.  With the queue drained, the consumer's
\* last received state different from current_ai_state and the AI task not in
\* the middle of a state change, a step either publishes an event
\* successfully or leaves both the consumer's last received state and
\* current_ai_state as they are: the difference lasts until the next
\* successful publish
C19_DifferenceLastsUntilPublish ==
    [][(/\ ai_state_queue = <<>>
        /\ ui_new_state # current_ai_state
        /\ pc["ai"] # "update")
         => \/ ai_state_queue' # <<>>
            \/ /\ ui_new_state' = ui_new_state
               /\ current_ai_state' = current_ai_state]_vars

\* C19 witness: the engine's change to Error was dropped on the full queue,
\* the consumer has drained the queue and last received an older state, and
\* the engine is between cycles
C19_Witness ==
    /\ ai_state_queue = <<>>
    /\ pc["ai"] = "take"
    /\ current_ai_state = "Error"
    /\ last_selected = "Error"
    /\ ui_new_state \in {"Idle", "Sniffing"}

\* C20: the queue changes only when the AI task appends the state it
\* publishes or when the UI task removes the oldest event; the consumer's
\* received state changes only to that oldest event, which leaves the queue in
\* the same step.  So an enqueued event is received at most once, and events
\* are received in the order of their publication
C20_ReceivedOnceInOrder ==
    [][/\ (ai_state_queue' # ai_state_queue) =>
            \/ /\ pc["ai"] \in {"send", "send_blocked"}
               /\ pc'["ai"] = "update"
               /\ ai_state_queue' = Append(ai_state_queue, new_state)
            \/ /\ pc["ui"] = "receive"
               /\ ai_state_queue # <<>>
               /\ ai_state_queue' = Tail(ai_state_queue)
       /\ (\/ ui_new_state' # ui_new_state
           \/ pc["ui"] = "receive" /\ pc'["ui"] = "status" /\ ai_state_queue # <<>>) =>
            /\ ai_state_queue # <<>>
            /\ ui_new_state' = Head(ai_state_queue)
            /\ ai_state_queue' = Tail(ai_state_queue)]_vars

\* C20 witness: the consumer has received the two oldest events, the second
\* one last; the other eight are queued in their order and the Error event
\* the AI task published since stands behind them
C20_Witness ==
    /\ pc["ui"] = "status"
    /\ ui_new_state = StaleEvents[2]
    /\ ai_state_queue = SubSeq(StaleEvents, 3, QUEUE_LENGTH) \o <<"Error">>

\* C21: the lookups are total.  A value of the enumeration gets the label
\* that names its enumerator, and no other value of the enumeration has the
\* same label or the same glyph; every value outside the enumeration gets
\* "Unknown" and the thinking face, which no value of the enumeration has
C21_LookupsTotalAndDistinct ==
    status_text # <<>> =>
        LET v == current_ai_state
            glyph == status_text[1]
            label == status_text[2]
        IN  IF v \in AiStateValues
            THEN /\ label = AiStateNames[v + 1]
                 /\ label # "Unknown"
                 /\ glyph # <<129300>>
                 /\ \A w \in AiStateValues \ {v} :
                        /\ ai_state_to_string(w) # label
                        /\ ai_state_to_emoji(w) # glyph
            ELSE /\ label = "Unknown"
                 /\ glyph = <<129300>>

\* C21 witness: the status text of a value outside the enumeration
C21_Witness ==
    /\ pc["ui"] = "status"
    /\ current_ai_state = AI_STATE_UPDATING + 1
    /\ status_text = <<<<129300>>, "Unknown">>

\* C22: whenever the selected state is Sniffing, the snapshot has
\* wifi_networks_count greater than 10
C22_SniffingAboveTenNetworks ==
    (Selected /\ new_state = "Sniffing") =>
        local_sensor_data.wifi_networks_count > 10

\* C23: an AI cycle that found new_state different from current_ai_state
\* ends with current_ai_state = new_state and state_duration = 0; a cycle
\* that found them equal ends with current_ai_state as it was and
\* state_duration raised by AI_UPDATE_INTERVAL; nothing else changes
\* state_duration
C23_DurationFollowsChange ==
    [][/\ (pc["ai"] = "update" /\ pc'["ai"] = "take") =>
            /\ state_duration' = 0
            /\ current_ai_state' = new_state
       /\ (pc["ai"] = "compare" /\ pc'["ai"] = "take") =>
            /\ new_state = current_ai_state
            /\ state_duration' = state_duration + AI_UPDATE_INTERVAL
            /\ current_ai_state' = current_ai_state
       /\ (pc["ai"] = "compare" /\ pc'["ai"] \notin {"compare", "take"}) =>
            /\ new_state # current_ai_state
            /\ pc'["ai"] = "send"
       /\ (state_duration' # state_duration) =>
            (pc["ai"] \in {"compare", "update"} /\ pc'["ai"] = "take")]_vars

\* C23 witness: the AI task has changed to a state other than Idle and
\* selected it again in its next cycle
C23_Witness ==
    /\ pc["ai"] = "take"
    /\ last_selected = current_ai_state
    /\ current_ai_state # "Idle"
    /\ state_duration = AI_UPDATE_INTERVAL

\* C24: in a cycle in which the decay interval elapses (millis() % 10000 = 0)
\* and the snapshot has wifi_networks_count < HIGH_WIFI_ACTIVITY_THRESHOLD,
\* analyze_behavior lowers excitement_level by 1, not below 0, whichever
\* state it selects
C24_DecayInEveryBranch ==
    (/\ pc["ai"] = "analyze"
     /\ local_sensor_data.wifi_networks_count < HIGH_WIFI_ACTIVITY_THRESHOLD) =>
        analyze_behavior(local_sensor_data, current_ai_state, state_duration,
                         excitement_level, learning_progress, TRUE).excitement_level
            = max(excitement_level - 1, 0)

\* rules 1-3 of analyze_behavior do not match the snapshot
NoRuleBeforeLearning ==
    /\ local_sensor_data.free_memory >= LOW_MEMORY_THRESHOLD
    /\ local_sensor_data.wifi_networks_count < HIGH_WIFI_ACTIVITY_THRESHOLD
    /\ ~(/\ local_sensor_data.ble_devices_count > 5
         /\ local_sensor_data.ble_signal_strength > STRONG_BLE_SIGNAL_THRESHOLD)

\* C25: analyze_behavior selects Learning exactly when rules 1-3 do not match,
\* current_ai_state is Sniffing and state_duration > 5000, and it then raises
\* learning_progress by 10, not above 100
C25_LearningExactlyAfterSniffingDwell ==
    [][(pc["ai"] = "analyze" /\ pc'["ai"] = "compare") =>
         LET rule4 == /\ NoRuleBeforeLearning
                      /\ current_ai_state = "Sniffing"
                      /\ state_duration > 5000
         IN  /\ (new_state' = "Learning") <=> rule4
             /\ rule4 => learning_progress' = min(learning_progress + 10, 100)]_vars

\* C25 witness: Sniffing for 5200 ms, a quiet snapshot, learning_progress
\* raised to its cap
C25_Witness ==
    /\ pc["ai"] = "compare"
    /\ current_ai_state = "Sniffing"
    /\ state_duration = 5200
    /\ new_state = "Learning"
    /\ learning_progress = 100

\* C26: the cycle that changes the state applies the entry adjustment once,
\* when it ends: entering Learning adds 5 to learning_progress, entering
\* Excited adds 10 to excitement_level, entering Sleeping takes 2 from
\* learning_progress if it is above 20, any other entry changes neither, and
\* both are then capped at 100.  A cycle without a change ends with both
\* counters as analyze_behavior left them, and no step other than
\* analyze_behavior and the end of a changing cycle changes a counter
C26_EntryAdjustmentOncePerChange ==
    [][/\ (pc["ai"] = "update" /\ pc'["ai"] = "take") =>
            /\ learning_progress' =
                  min(IF new_state = "Learning" THEN learning_progress + 5
                      ELSE IF new_state = "Sleeping" /\ learning_progress > 20
                           THEN learning_progress - 2
                      ELSE learning_progress, 100)
            /\ excitement_level' =
                  min(IF new_state = "Excited" THEN excitement_level + 10
                      ELSE excitement_level, 100)
            /\ new_state \notin {"Learning", "Excited", "Sleeping"} =>
                  /\ learning_progress' = learning_progress
                  /\ excitement_level' = excitement_level
       /\ (\/ learning_progress' # learning_progress
           \/ excitement_level' # excitement_level) =>
            \/ pc["ai"] = "analyze" /\ pc'["ai"] = "compare"
            \/ pc["ai"] = "update" /\ pc'["ai"] = "take"]_vars

\* C26 witness: the AI task has entered Sleeping with learning_progress 21,
\* which the entry has lowered to 19
C26_Witness ==
    /\ pc["ai"] = "take"
    /\ current_ai_state = "Sleeping"
    /\ last_selected = "Sleeping"
    /\ state_duration = 0
    /\ learning_progress = 19

\* C27: while only the AI task writes current_ai_state, it is never Sniffing
\* with state_duration above 3000, Learning is neither selected nor entered
\* nor queued, and learning_progress stays 0
C27_LearningUnreachable ==
    /\ (current_ai_state = "Sniffing" => state_duration <= 3000)
    /\ new_state # "Learning"
    /\ current_ai_state # "Learning"
    /\ \A i \in 1..Len(ai_state_queue) : ai_state_queue[i] # "Learning"
    /\ learning_progress = 0

\* C27 witness: sixteen Sniffing cycles in a row have raised excitement_level
\* to 80 and state_duration to 3000
C27_Witness ==
    /\ pc["ai"] = "take"
    /\ current_ai_state = "Sniffing"
    /\ last_selected = "Sniffing"
    /\ state_duration = 3000
    /\ excitement_level = 80

\* an AI cycle ends in this step
CycleEnds == pc["ai"] \in {"compare", "update"} /\ pc'["ai"] = "take"

\* C28: when the last completed AI cycle has selected Sleeping, the cycle
\* that follows it does not end with current_ai_state = Sleeping
C28_NoTwoCyclesSleeping ==
    [][(CycleEnds /\ last_selected = "Sleeping") =>
         current_ai_state' # "Sleeping"]_vars

\* C29: Updating is never selected: new_state and current_ai_state are never
\* Updating, no queued event carries it and the consumer never receives it
C29_NeverUpdating ==
    /\ new_state # "Updating"
    /\ current_ai_state # "Updating"
    /\ ui_new_state # "Updating"
    /\ \A i \in 1..Len(ai_state_queue) : ai_state_queue[i] # "Updating"

\* C29 witness: the AI task has fallen through to the default of
\* analyze_behavior and queued the Idle it selected, and the consumer has
\* received an event
C29_Witness ==
    /\ pc["ai"] = "take"
    /\ last_selected = "Idle"
    /\ state_duration = 0
    /\ ai_state_queue # <<>>
    /\ ai_state_queue[Len(ai_state_queue)] = "Idle"
    /\ ui_new_state # "None"

\* update_global_sensor_data has not written the record yet
NoUpdateYet ==
    \/ cycles_left["system"] = MaxSystemCycles
    \/ /\ cycles_left["system"] = MaxSystemCycles - 1
       /\ pc["system"] \in {"update", "write_memory"}

\* the AI task has not changed state yet and is in its first successful cycle
FirstCycle ==
    /\ current_ai_state = "Idle"
    /\ state_duration = 0
    /\ ai_state_queue = <<>>
    /\ ui_new_state = "None"

\* C30: a snapshot the AI task copies before update_global_sensor_data has
\* written has free_memory = 0; if it is the AI task's first snapshot, the
\* cycle selects Error, finds it different from Idle, enqueues the Error event
\* and sets current_ai_state to Error
C30_FirstSnapshotBeforeUpdateIsError ==
    [][/\ (pc["ai"] = "copy" /\ pc'["ai"] = "analyze" /\ NoUpdateYet) =>
            local_sensor_data'.free_memory = 0
       /\ (/\ pc["ai"] = "analyze" /\ pc'["ai"] = "compare"
           /\ FirstCycle /\ local_sensor_data.free_memory = 0) =>
            new_state' = "Error"
       /\ (/\ pc["ai"] = "compare" /\ pc'["ai"] # "compare"
           /\ FirstCycle /\ new_state = "Error") =>
            pc'["ai"] = "send"
       /\ (/\ pc["ai"] = "send" /\ pc'["ai"] # "send"
           /\ FirstCycle /\ new_state = "Error") =>
            /\ ai_state_queue' = <<"Error">>
            /\ pc'["ai"] = "update"
       /\ (pc["ai"] = "update" /\ pc'["ai"] = "take" /\ new_state = "Error") =>
            current_ai_state' = "Error"]_vars

\* C30 witness: the system task has not written yet, and the AI task has
\* gone from Idle to Error and queued the event
C30_Witness ==
    /\ NoUpdateYet
    /\ global_sensor_data.free_memory = 0
    /\ pc["ai"] = "take"
    /\ current_ai_state = "Error"
    /\ last_selected = "Error"
    /\ ai_state_queue = <<"Error">>
    /\ ui_new_state = "None"

\* C31: every event the consumer receives carries a state different from the
\* one it received immediately before
C31_ReceivedDiffersFromPrevious ==
    [][(/\ pc["ui"] = "receive" /\ pc'["ui"] = "status"
        /\ ai_state_queue # <<>>
        /\ ui_new_state # "None")
         => ui_new_state' # ui_new_state]_vars

\* C31: the AI task goes to the send only from a comparison that found
\* new_state different from current_ai_state, a cycle that found them equal
\* leaves the queue as it was, and the queue grows only by the new_state of a
\* send
C31_EnqueuedDiffersFromCompared ==
    [][/\ (pc'["ai"] = "send" /\ pc["ai"] # "send") =>
            /\ pc["ai"] = "compare"
            /\ new_state # current_ai_state
       /\ (pc["ai"] = "compare" /\ pc'["ai"] = "take") =>
            /\ new_state = current_ai_state
            /\ ai_state_queue' = ai_state_queue
       /\ (Len(ai_state_queue') > Len(ai_state_queue)) =>
            /\ pc["ai"] \in {"send", "send_blocked"}
            /\ ai_state_queue' = Append(ai_state_queue, new_state)]_vars

\* C31 witness: the oldest queued event carries the state the consumer
\* received last, and the consumer is about to poll
C31_Witness ==
    /\ pc["ui"] = "receive"
    /\ ai_state_queue # <<>>
    /\ ui_new_state = ai_state_queue[1]

\* C32: ai_state_queue never holds more than QUEUE_LENGTH (10) states; a step
\* of the send either appends new_state to a queue that had room or leaves
\* the queue exactly as it was, and a send that ends with the queue full
\* leaves the queued states and their order unchanged.
C32_QueueBoundedSendAllOrNothing ==
    /\ [](Len(ai_state_queue) <= QUEUE_LENGTH)
    /\ [][(/\ pc["ai"] \in {"send", "send_blocked"}
           /\ pc'["ai"] # pc["ai"])
            => (\/ /\ Len(ai_state_queue) < QUEUE_LENGTH
                   /\ pc'["ai"] = "update"
                   /\ ai_state_queue' = Append(ai_state_queue, new_state)
                \/ /\ Len(ai_state_queue) = QUEUE_LENGTH
                   /\ ai_state_queue' = ai_state_queue)]_vars

\* C32 witness: the send is waiting on a queue that holds exactly
\* QUEUE_LENGTH states, none of them the event being sent last
C32_Witness ==
    /\ pc["ai"] = "send_blocked"
    /\ Len(ai_state_queue) = QUEUE_LENGTH
    /\ ai_state_queue[QUEUE_LENGTH] # new_state

\* the places of each task between a successful xSemaphoreTake of
\* sensor_data_mutex and the xSemaphoreGive that follows it
HeldPlaces ==
    [ai |-> {"copy"},
     ui |-> {"read"},
     scan |-> {"wifi_count", "wifi_rssi", "ble_count", "ble_rssi", "process_write"},
     system |-> {"write_memory", "write_rest"}]

\* C33: a task holds sensor_data_mutex exactly while it is between one of its
\* takes and the give that follows, so at most one task is there at a time
\* and the mutex is not held at a period sleep, at a queue operation or at
\* another take; and a held mutex is always given back.
C33_MutexHeldOnlyInCriticalSection ==
    /\ [](\A t \in Tasks : (sensor_data_mutex = t) <=> (pc[t] \in HeldPlaces[t]))
    /\ (sensor_data_mutex # "free") ~> (sensor_data_mutex = "free")

\* C33 witness: the scan task holds the mutex while the three other tasks
\* are each at a take of it
C33_Witness ==
    /\ sensor_data_mutex = "scan"
    /\ pc["scan"] \in HeldPlaces["scan"]
    /\ pc["ai"] = "take"
    /\ pc["ui"] = "status"
    /\ pc["system"] = "update"

\* C34: a cycle that selects Error or Tracking leaves excitement_level and
\* learning_progress as they were, in analyze_behavior and in the entry into
\* the state; and excitement_level goes down only in the analyze_behavior of
\* a cycle that selects Sleeping or Idle.
C34_ErrorTrackingKeepCounters ==
    [][/\ (/\ pc["ai"] = "analyze" /\ pc'["ai"] = "compare"
           /\ new_state' \in {"Error", "Tracking"}) =>
            /\ excitement_level' = excitement_level
            /\ learning_progress' = learning_progress
       /\ (/\ pc["ai"] = "update" /\ pc'["ai"] = "take"
           /\ new_state \in {"Error", "Tracking"}) =>
            /\ excitement_level' = excitement_level
            /\ learning_progress' = learning_progress
       /\ (excitement_level' < excitement_level) =>
            /\ pc["ai"] = "analyze" /\ pc'["ai"] = "compare"
            /\ new_state' \in {"Sleeping", "Idle"}]_vars

\* C34 witness: a cycle that began with excitement_level 99 and
\* learning_progress 21 has entered Tracking and left both as they were
C34_Witness ==
    /\ pc["ai"] = "take"
    /\ last_selected = "Tracking"
    /\ current_ai_state = "Tracking"
    /\ state_duration = 0
    /\ excitement_level = 99
    /\ learning_progress = 21

\* the AI task is outside the branch that changes state (lines 54-67)
EngineSettled == pc["ai"] \notin {"send", "send_blocked", "update"}

\* the state the engine selected last: new_state from the return of
\* analyze_behavior to the end of the cycle, the last completed cycle's
\* selection otherwise
LastSelected == IF Selected THEN new_state ELSE last_selected

\* the UI task receives the oldest queued event (xQueueReceive returns pdTRUE)
ReceiveOldest ==
    /\ pc["ui"] = "receive"
    /\ ai_state_queue # <<>>
    /\ ui_new_state' = Head(ai_state_queue)
    /\ ai_state_queue' = Tail(ai_state_queue)

\* C35: with the UI task fairly scheduled, an event leaves the queue only by
\* being received as the oldest one, the UI task polls again and again and
\* every poll of a queue that holds events receives the oldest, so every
\* enqueued state is eventually received; and if the AI task stays out of its state-change branch from
\* some point on, then from some point on the last state the consumer
\* received is the state the engine selected last.
C35_EnqueuedEventuallyReceived ==
    /\ [][(\/ Len(ai_state_queue') < Len(ai_state_queue)
           \/ /\ pc["ui"] = "receive" /\ pc'["ui"] # "receive"
              /\ ai_state_queue # <<>>)
            => ReceiveOldest]_vars
    /\ []<>(pc["ui"] = "receive")
    /\ []<>(pc["ui"] = "status")
    /\ \A s \in EngineStates :
          (\E i \in 1..Len(ai_state_queue) : ai_state_queue[i] = s)
             ~> (ui_new_state = s)
    /\ (<>[]EngineSettled) => <>[](ui_new_state = LastSelected)

\* C35 witness: the consumer has just received the Error event that the AI
\* task enqueued behind the older events, the queue is drained and Error is
\* still the state the engine selected last
C35_Witness ==
    /\ pc["ui"] = "status"
    /\ ai_state_queue = <<>>
    /\ EngineSettled
    /\ ui_new_state = "Error"
    /\ LastSelected = "Error"

(***************************************************************************)
(* setup(), main.cpp lines 78-88, and create_tasks(), lines 187-242.       *)
(* SpecSetup starts at line 78, before the two synchronization objects     *)
(* exist; either creation can return NULL.  ESP.restart() does not return: *)
(* the device boots again and setup() runs from the start.  create_tasks   *)
(* creates the tasks one by one, and a task that exists runs while setup() *)
(* goes on.                                                                *)
(***************************************************************************)
HandleValues == {"NULL", "valid"}

\* the places of setup() inside create_tasks, and after it
CreatePlaces == {"create_ui", "create_ai", "create_scan", "create_system"}

SetupAtBoot == [pc |-> "create", sensor_data_mutex |-> "NULL", ai_state_queue |-> "NULL"]

InitSetup ==
    /\ global_sensor_data \in
          {[ZeroSensorData EXCEPT !.sd_card_present = b] : b \in BOOLEAN}
    /\ sensor_data_mutex = "free"
    /\ ai_state_queue = <<>>
    /\ current_ai_state = "Idle"
    /\ state_duration = 0
    /\ excitement_level = 0
    /\ learning_progress = 0
    /\ local_sensor_data = ZeroSensorData
    /\ new_state = "None"
    /\ last_selected = "None"
    /\ ui_new_state = "None"
    /\ status_text = <<>>
    /\ setup = SetupAtBoot
    /\ current_metrics = ZeroMetrics
    /\ scan_local = <<0, 0>>
    /\ millis = 0
    /\ cycles_left = [ai |-> MaxAiCycles, ui |-> -1, scan |-> MaxScanCycles,
                      system |-> MaxSystemCycles]
    /\ pc = [t \in Tasks |-> "not_created"]

SetupFrame ==
    UNCHANGED <<global_sensor_data, sensor_data_mutex, ai_state_queue,
                current_ai_state, ui_new_state, status_text, EngineVars,
                ProducerVars, EnvVars>>

\* lines 79-80: xSemaphoreCreateMutex and xQueueCreate, each a handle or NULL
SetupCreate ==
    /\ setup.pc = "create"
    /\ \E m \in HandleValues, q \in HandleValues :
          setup' = [pc |-> "check", sensor_data_mutex |-> m, ai_state_queue |-> q]
    /\ UNCHANGED pc
    /\ SetupFrame

\* a test of line 82 that looks at the mutex only
SetupCheck_mutex_only ==
    /\ setup.pc = "check"
    /\ setup' = [setup EXCEPT !.pc = IF setup.sensor_data_mutex = "NULL"
                                     THEN "restart"
                                     ELSE "create_ui"]
    /\ UNCHANGED pc
    /\ SetupFrame

\* lines 82-83 and 88: either handle NULL leads to the restart, else create_tasks
SetupCheck ==
    /\ setup.pc = "check"
    /\ setup' = [setup EXCEPT !.pc = IF \/ setup.sensor_data_mutex = "NULL"
                                        \/ setup.ai_state_queue = "NULL"
                                     THEN "restart"
                                     ELSE "create_ui"]
    /\ UNCHANGED pc
    /\ SetupFrame

\* line 84: ESP.restart(); the device boots and setup() starts again
SetupRestart ==
    /\ setup.pc = "restart"
    /\ setup' = SetupAtBoot
    /\ pc' = [t \in Tasks |-> "not_created"]
    /\ SetupFrame

\* create_tasks: one xTaskCreatePinnedToCore; the task starts at its loop
CreateTask(t, at, then) ==
    /\ setup.pc = at
    /\ setup' = [setup EXCEPT !.pc = then]
    /\ Goto(t, LoopStart[t])
    /\ SetupFrame

\* create_tasks, lines 191-231: UI, AI, scan and system task in this order
create_tasks ==
    \/ CreateTask("ui", "create_ui", "create_ai")
    \/ CreateTask("ai", "create_ai", "create_scan")
    \/ CreateTask("scan", "create_scan", "create_system")
    \/ CreateTask("system", "create_system", "done")

SetupNext == SetupCreate \/ SetupCheck \/ SetupRestart \/ create_tasks

NextSetup ==
    \/ SetupNext
    \/ AiNext(MaxDwellCycles)
    \/ UiNext
    \/ ScanNext(WifiResults, BleResults)
    \/ SystemNext(HeapSamples)

SpecSetup == InitSetup /\ [][NextSetup]_vars

\* both handles setup() holds are valid
HandlesValid ==
    /\ setup.sensor_data_mutex = "valid"
    /\ setup.ai_state_queue = "valid"

\* C36: a task exists only while setup() is in create_tasks or past it, and
\* setup() is there only with both handles valid; a test that finds a NULL
\* handle goes to the restart with no task created, and the restart starts
\* setup() again with no task; so every take of the mutex and every send or
\* receive on the queue is made with a valid handle.
C36_TasksOnlyWithBothObjects ==
    /\ [](\A t \in Tasks :
            pc[t] # "not_created" => setup.pc \in CreatePlaces \cup {"done"})
    /\ [](setup.pc \in CreatePlaces \cup {"done"} => HandlesValid)
    /\ [][/\ (setup.pc = "check" /\ ~HandlesValid) =>
               /\ setup'.pc = "restart"
               /\ \A t \in Tasks : pc'[t] = "not_created"
          /\ (setup.pc = "restart") =>
               /\ setup' = SetupAtBoot
               /\ \A t \in Tasks : pc'[t] = "not_created"
          /\ (sensor_data_mutex' # sensor_data_mutex) =>
               setup.sensor_data_mutex = "valid"
          /\ (\/ ai_state_queue' # ai_state_queue
              \/ /\ pc["ai"] \in {"send", "send_blocked"}
                 /\ pc'["ai"] # pc["ai"]
              \/ pc["ui"] = "receive" /\ pc'["ui"] # "receive") =>
               setup.ai_state_queue = "valid"]_vars

\* C36 witness: xQueueCreate has returned NULL after a successful
\* xSemaphoreCreateMutex, setup() is at the restart and no task exists
C36_Witness ==
    /\ setup.pc = "restart"
    /\ setup.sensor_data_mutex = "valid"
    /\ setup.ai_state_queue = "NULL"
    /\ \A t \in Tasks : pc[t] = "not_created"

(***************************************************************************)
(* SpecClock: the two writers of uptime_seconds with a running clock.  The *)
(* clock advances in steps of TickMs between any two steps of the scan and *)
(* system tasks, up to MaxUptimeMs.                                        *)
(***************************************************************************)
TickMs == 500
MaxUptimeMs == 1000

\* millis() has advanced
Tick ==
    /\ millis + TickMs <= MaxUptimeMs
    /\ millis' = millis + TickMs
    /\ UNCHANGED <<global_sensor_data, sensor_data_mutex, ai_state_queue,
                   current_ai_state, ui_new_state, status_text, setup, EngineVars,
                   ProducerVars, cycles_left, pc>>

InitClock ==
    InitDevice([ai |-> 0, ui |-> 0, scan |-> MaxScanCycles, system |-> MaxSystemCycles])

NextClock ==
    \/ Tick
    \/ ScanNext(WifiResults, BleResults)
    \/ SystemNext(HeapSamples)

SpecClock == InitClock /\ [][NextClock]_vars

\* C37: no step lowers uptime_seconds in the store, whichever of the scan
\* task and the system task writes it and however their steps interleave
C37_UptimeNeverDecreases ==
    [][global_sensor_data'.uptime_seconds >= global_sensor_data.uptime_seconds]_vars

(***************************************************************************)
(* SpecActivity: the scan task over scans that find 10 or 11 networks or   *)
(* devices, the counts on both sides of the two tests of                   *)
(* process_scan_results, with the system task as the other user of the     *)
(* mutex.                                                                  *)
(***************************************************************************)
MaxActivityCycles == 2
ActivityWifi == {<<0, 0>>, <<10, -45>>, <<11, -45>>}
ActivityBle == {<<0, 0>>, <<10, -40>>, <<11, -40>>}

InitActivity ==
    InitDevice([ai |-> 0, ui |-> 0, scan |-> MaxActivityCycles,
                system |-> MaxSystemCycles])

NextActivity ==
    \/ ScanNext(ActivityWifi, ActivityBle)
    \/ SystemNext(HealthyHeap)

SpecActivity == InitActivity /\ [][NextActivity]_vars

\* C38: the step that ends a successful process_scan_results leaves
\* user_interaction equal to (wifi_networks_count > 10 or ble_devices_count >
\* 10) for the counts the store holds then, and leaves the counts alone; no
\* other step changes user_interaction, so it becomes true only in a store
\* whose counts show high scan activity.
C38_InteractionFollowsScanActivity ==
    [][LET old == global_sensor_data
           new == global_sensor_data'
       IN  /\ (pc["scan"] = "process_write" /\ pc'["scan"] # "process_write") =>
                /\ new.user_interaction =
                      (new.wifi_networks_count > 10 \/ new.ble_devices_count > 10)
                /\ new.wifi_networks_count = old.wifi_networks_count
                /\ new.ble_devices_count = old.ble_devices_count
           /\ (new.user_interaction # old.user_interaction) =>
                /\ pc["scan"] = "process_write"
                /\ sensor_data_mutex = "scan"
           /\ (new.user_interaction /\ ~old.user_interaction) =>
                (old.wifi_networks_count > 10 \/ old.ble_devices_count > 10)]_vars

\* C38 witness: process_scan_results has set user_interaction for a store
\* with 10 networks, which is not above the threshold, and 11 BLE devices
C38_Witness ==
    /\ pc["scan"] = "log"
    /\ global_sensor_data.user_interaction
    /\ global_sensor_data.wifi_networks_count = 10
    /\ global_sensor_data.ble_devices_count = 11

====
